---------------------------- MODULE Spec2Model ----------------------------
(***************************************************************************)
(* A model of the JIRA dashboard widget (stevedep/jirascript).             *)
(*                                                                         *)
(* The repository holds three definitions of window.createJiraDashboard:   *)
(*   "legacy"   src/jira-dashboard.js lines 2-878   (assignee grouping,    *)
(*              sort buttons, loading markup inserted without removal),    *)
(*   "assignee" src/unnamed/part_000                (refactored, grouping  *)
(*              by assignee),                                              *)
(*   "sprint"   src/jira-dashboard.js lines 882-1125 (refactored, grouping *)
(*              by sprint, then assignee).                                 *)
(* The variable variant says which of them the page carries.               *)
(*                                                                         *)
(* Text is a sequence of atoms: an atom is a character or a run of         *)
(* characters that no operation of the program splits ("&" and "lt;" are   *)
(* two atoms, so that "&lt;" is the sequence <<"&", "lt;">>).  The empty   *)
(* text <<>> is JavaScript's '' and, where only truthiness is read, also   *)
(* undefined and null.  An optional DOM element is a sequence of zero or   *)
(* one texts.                                                              *)
(***************************************************************************)
EXTENDS Integers, Sequences, FiniteSets, TLC

VARIABLES
  variant,   \* which definition of createJiraDashboard is installed
  feed,      \* parseJiraXML: the item elements of the parsed document
  idx,       \* parseJiraXML: index of the next item of items.forEach
  tickets,   \* parseJiraXML: the tickets array
  warned,    \* parseJiraXML: number of console.warn calls
  threw,     \* parseJiraXML: an exception escaped the function
  ppc,       \* parseJiraXML: "idle", "loop" or "returned"
  rtickets,  \* renderDashboard: the tickets argument
  gidx,      \* grouping: index of the next ticket of tickets.reduce
  grouped,   \* grouping: the accumulator acc
  view,      \* renderDashboard: the markup built from the groups
  gpc,       \* renderDashboard: "idle", "group" or "rendered"
  doc,       \* the toggle buttons and toggled sections of the overlay, in document order
  dom,       \* the elements with id jira-dashboard-popup, in document order
  calls,     \* one record per call of createJiraDashboard: its closure
  console,   \* what was written to the console
  unhandled, \* the calls whose promise chain ended in an unhandled rejection
  thrown,    \* the calls of createJiraDashboard that threw to their caller
  sortFn,    \* window.sortJiraTickets: the call whose closure it is, 0 if undefined
  toggleFn,  \* window.toggleJiraSection: the call that defined it last, 0 if undefined
  lastOps,   \* the last two operations on the page ("render", "loading", "remove")
  sortArgs,  \* sortTickets: the arguments tickets, field and direction of a call
  sortResult \* sortTickets: the array the call returned, None before it returns

parseVars == <<feed, idx, tickets, warned, threw, ppc>>
renderVars == <<rtickets, gidx, grouped, view, gpc, doc>>
pageVars == <<dom, calls, console, unhandled, thrown, sortFn, toggleFn, lastOps>>
sortVars == <<sortArgs, sortResult>>
vars == <<variant, parseVars, renderVars, pageVars, sortVars>>

Variants == {"legacy", "assignee", "sprint"}

\* ------------------------------------------------------------------ bounds
MaxItems == 2
MaxCalls == 2
MaxText == 3

\* -------------------------------------------------------------------- text
Empty == <<>>
None == <<>>
Some(t) == <<t>>

\* an || that never falls back
OrFirst(a, b) == a

\* a || b on strings: '' (and undefined) is falsy
Or(a, b) == IF a # Empty THEN a ELSE b

\* el?.textContent: the text of an optional element, undefined when absent
textContent(el) == IF el = None THEN Empty ELSE el[1]

IsSpace(a) == a = " "

RECURSIVE trimStart(_)
trimStart(s) ==
  IF s # Empty /\ IsSpace(Head(s)) THEN trimStart(Tail(s)) ELSE s

RECURSIVE trimEnd(_)
trimEnd(s) ==
  IF s # Empty /\ IsSpace(s[Len(s)]) THEN trimEnd(SubSeq(s, 1, Len(s) - 1)) ELSE s

\* String.prototype.trim
trim(s) == trimEnd(trimStart(s))

StartsWith(s, pat) == Len(s) >= Len(pat) /\ SubSeq(s, 1, Len(pat)) = pat

\* String.prototype.replace(/pat/g, rep): every non-overlapping occurrence,
\* scanning from the left
RECURSIVE replaceAll(_, _, _)
replaceAll(s, pat, rep) ==
  IF s = Empty THEN Empty
  ELSE IF StartsWith(s, pat)
       THEN rep \o replaceAll(SubSeq(s, Len(pat) + 1, Len(s)), pat, rep)
       ELSE <<Head(s)>> \o replaceAll(Tail(s), pat, rep)

\* String.prototype.includes on atom sequences
Contains(s, pat) == \E i \in 1..(Len(s) - Len(pat) + 1) : SubSeq(s, i, i + Len(pat) - 1) = pat

EntLt == <<"&", "lt;">>
EntGt == <<"&", "gt;">>
EntAmp == <<"&", "amp;">>
EntQuot == <<"&", "quot;">>

\* a decoding that forgets one entity
decodeEntitiesNoGt(s) ==
  trim(replaceAll(replaceAll(replaceAll(s, EntLt, <<"<">>), EntAmp, <<"&">>), EntQuot, <<"\"">>))

\* .replace(/&lt;/g,'<').replace(/&gt;/g,'>').replace(/&amp;/g,'&').replace(/&quot;/g,'"').trim()
decodeEntities(s) ==
  trim(replaceAll(replaceAll(replaceAll(replaceAll(s,
         EntLt, <<"<">>), EntGt, <<">">>), EntAmp, <<"&">>), EntQuot, <<"\"">>))

\* String.prototype.split(':')[0]: the text before the first ':'
RECURSIVE splitFirst(_)
splitFirst(s) ==
  IF s = Empty \/ Head(s) = ":" THEN Empty ELSE <<Head(s)>> \o splitFirst(Tail(s))

\* a summary that keeps the whole title
stripKeyPrefixNot(s) == s

\* String.prototype.replace(/^[^:]*:\s*/, ''): drops the text up to the first
\* ':' and the white space after it; a text without ':' is unchanged
stripKeyPrefix(s) ==
  IF Contains(s, <<":">>)
  THEN trimStart(SubSeq(s, Len(splitFirst(s)) + 2, Len(s)))
  ELSE s

\* ------------------------------------------------------------------ parser
Now == <<"now">>   \* new Date().toISOString()

\* the comment records of an item (comments: None when there is no
\* <comments> element)
parseComments(v, item) ==
  IF item.comments = None THEN <<>>
  ELSE [i \in 1..Len(item.comments[1]) |->
         LET c == item.comments[1][i] IN
         [id |-> c.id,
          author |-> IF v = "legacy" THEN c.author ELSE Or(c.author, Or(c.username, <<"Unknown">>)),
          created |-> c.created,
          body |-> decodeEntities(c.body)]]

\* a loop that keeps the first non-empty "Sprint" value it meets
RECURSIVE parseSprintFirst(_, _)
parseSprintFirst(cfs, sprint) ==
  IF cfs = <<>> THEN sprint
  ELSE LET cf == Head(cfs) IN
       IF textContent(cf.name) = <<"Sprint">> /\ textContent(cf.value) # Empty
       THEN textContent(cf.value)
       ELSE parseSprintFirst(Tail(cfs), sprint)

\* the last non-empty value of a custom field named exactly "Sprint"
RECURSIVE parseSprint(_, _)
parseSprint(cfs, sprint) ==
  IF cfs = <<>> THEN sprint
  ELSE LET cf == Head(cfs) IN
       parseSprint(Tail(cfs),
                   IF textContent(cf.name) = <<"Sprint">> /\ textContent(cf.value) # Empty
                   THEN textContent(cf.value) ELSE sprint)

\* a key that prefers the title to the <key> element
ticketKeyTitleFirst(item) ==
  Or(splitFirst(textContent(item.title)), textContent(item.key))

\* key: item.querySelector('key')?.textContent || (title text).split(':')[0] || ''
ticketKey(item) ==
  Or(textContent(item.key), splitFirst(textContent(item.title)))

\* the ticket object built from one item
parseTicket(v, item) ==
  [id |-> Or(textContent(item.guid), textContent(item.link)),
   key |-> ticketKey(item),
   summary |-> Or(textContent(item.summary), stripKeyPrefix(textContent(item.title))),
   description |-> IF item.description = None THEN Empty
                   ELSE decodeEntities(textContent(item.description)),
   type |-> Or(textContent(item.type), <<"Task">>),
   status |-> Or(textContent(item.status), <<"Unknown">>),
   assignee |-> Or(textContent(item.assignee), Or(textContent(item.reporter), <<"Unassigned">>)),
   priority |-> Or(textContent(item.priority), <<"Medium">>),
   updated |-> Or(textContent(item.updated), Or(textContent(item.pubDate), Now)),
   created |-> Or(textContent(item.created), Or(textContent(item.pubDate), Now)),
   parentKey |-> textContent(item.parent),
   link |-> textContent(item.link),
   comments |-> parseComments(v, item),
   sprint |-> IF v = "sprint" THEN parseSprint(item.customfields, <<"No Sprint">>) ELSE Empty]

\* a push at the front of the array
pushIfKeyFront(ts, t) == IF t.key # Empty THEN <<t>> \o ts ELSE ts

\* a push that forgets the key test
pushIfKeyAlways(ts, t) == Append(ts, t)

\* if (ticket.key) tickets.push(ticket)
pushIfKey(ts, t) == IF t.key # Empty THEN Append(ts, t) ELSE ts

\* a catch that lets the failure end the whole loop
catchItemFailureAbort(st) == [st EXCEPT !.threw = TRUE, !.tickets = <<>>]

\* catch (e) { console.warn('Failed to parse ticket', e); }
catchItemFailure(st) == [st EXCEPT !.warned = @ + 1]

\* one call of the items.forEach callback; st is [tickets, warned, threw].
\* item.fault: reading the item raises an exception inside the try block
parseItem(v, st, item) ==
  IF item.fault THEN catchItemFailure(st)
  ELSE [st EXCEPT !.tickets = pushIfKey(@, parseTicket(v, item))]

\* parseJiraXML as a function of the document's items
RECURSIVE parseLoop(_, _, _)
parseLoop(v, st, items) ==
  IF items = <<>> \/ st.threw THEN st
  ELSE parseLoop(v, parseItem(v, st, Head(items)), Tail(items))

parseJiraXML(v, items) == parseLoop(v, [tickets |-> <<>>, warned |-> 0, threw |-> FALSE], items).tickets


\* --------------------------------------------------------------- item sets
\* an <item> element: each sub-element is None or Some(text); fault says
\* that reading the item inside the try block raises an exception
BaseItem ==
  [guid |-> None, link |-> None, key |-> None, title |-> None, summary |-> None,
   description |-> None, comments |-> None, type |-> None, status |-> None,
   assignee |-> None, reporter |-> None, priority |-> None, updated |-> None,
   created |-> None, pubDate |-> None, parent |-> None, customfields |-> <<>>,
   fault |-> FALSE]

\* a <comment> element: its attributes and its text
BaseComment == [id |-> Empty, author |-> Empty, username |-> Empty, created |-> Empty, body |-> Empty]

\* all sequences over S of length at most n
SeqsUpTo(S, n) == UNION {[1..k -> S] : k \in 0..n}

ParseKeys == {None, Some(Empty), Some(<<"PROJ-1">>)}
ParseTitles == {None, Some(<<"PROJ-3", ":", " ", "Fix">>), Some(<<":", " ", "Fix">>)}
ParseBodies ==
  {[description |-> None, comments |-> None],
   [description |-> Some(<<" ", "&", "lt;", "b", "&", "gt;">>),
    comments |-> Some(<<[BaseComment EXCEPT !.author = <<"ann">>, !.body = <<"a", "&", "amp;", "b">>],
                        [BaseComment EXCEPT !.username = <<"bob">>, !.body = <<"&", "quot;", " ">>]>>)]}

ParseItems ==
  {[BaseItem EXCEPT !.key = k, !.title = t, !.description = b.description,
                    !.comments = b.comments, !.fault = f] :
     k \in ParseKeys, t \in ParseTitles, b \in ParseBodies, f \in BOOLEAN}

\* the page before createJiraDashboard is called
SortIdle ==
  /\ sortArgs = None
  /\ sortResult = None

PageIdle ==
  /\ dom = <<>>
  /\ calls = <<>>
  /\ console = {}
  /\ unhandled = {}
  /\ thrown = {}
  /\ sortFn = 0
  /\ toggleFn = 0
  /\ lastOps = <<>>

\* the variables of renderDashboard when no render is being followed
RenderIdle ==
  /\ rtickets = <<>>
  /\ gidx = 1
  /\ grouped = <<>>
  /\ view = <<>>
  /\ gpc = "idle"
  /\ doc = <<>>

\* ------------------------------------------------- parseJiraXML, step by step
InitParse ==
  /\ variant \in Variants
  /\ RenderIdle
  /\ PageIdle
  /\ SortIdle
  /\ feed \in SeqsUpTo(ParseItems, MaxItems)
  /\ idx = 1
  /\ tickets = <<>>
  /\ warned = 0
  /\ threw = FALSE
  /\ ppc = "loop"

\* one iteration of items.forEach
ParseItem ==
  /\ ppc = "loop"
  /\ ~threw
  /\ idx <= Len(feed)
  /\ LET st == parseItem(variant, [tickets |-> tickets, warned |-> warned, threw |-> threw], feed[idx])
     IN /\ tickets' = st.tickets
        /\ warned' = st.warned
        /\ threw' = st.threw
  /\ idx' = idx + 1
  /\ UNCHANGED <<variant, feed, ppc, renderVars, pageVars, sortVars>>

\* return tickets
ParseReturn ==
  /\ ppc = "loop"
  /\ ~threw
  /\ idx > Len(feed)
  /\ ppc' = "returned"
  /\ UNCHANGED <<variant, feed, idx, tickets, warned, threw, renderVars, pageVars, sortVars>>

NextParse == ParseItem \/ ParseReturn

SpecParse == InitParse /\ [][NextParse]_vars


\* ------------------------------------------------------ claims on the parser
\* the key a feed item carries, in the claims' terms: its <key> text, else
\* the part of its title before the first ':'
ClaimKey(it) ==
  IF textContent(it.key) # Empty THEN textContent(it.key)
  ELSE IF textContent(it.title) = Empty THEN Empty
  ELSE SubSeq(textContent(it.title), 1,
              (CHOOSE n \in 0..Len(textContent(it.title)) :
                 /\ \A i \in 1..n : textContent(it.title)[i] # ":"
                 /\ (n < Len(textContent(it.title)) => textContent(it.title)[n + 1] = ":")))

IsValidKeyed(it) == ~it.fault /\ ClaimKey(it) # Empty
IsValid(it) == ~it.fault

\* C1: when parseJiraXML has returned, the tickets are, one for one and in
\* order, the valid items of the feed that carry a non-empty key, each ticket
\* with the key of its item
C1_OneTicketPerKeyedItem ==
  ppc = "returned" =>
    LET keyed == SelectSeq(feed, IsValidKeyed) IN
      /\ Len(tickets) = Len(keyed)
      /\ \A j \in 1..Len(keyed) : tickets[j].key = ClaimKey(keyed[j])

\* C1 witness: a returned parse of a feed holding an item with a <key>
\* element that produced a ticket and an item without any key
C1_Witness ==
  /\ ppc = "returned"
  /\ Len(tickets) = 1
  /\ \E i \in 1..Len(feed) : ~feed[i].fault /\ textContent(feed[i].key) # Empty
  /\ \E i \in 1..Len(feed) : ~feed[i].fault /\ ClaimKey(feed[i]) = Empty

\* C2: no exception escapes parseJiraXML, no ticket has an empty key, and a
\* feed whose valid items all lack a key yields no ticket
C2_KeylessExcludedNoThrow ==
  /\ ~threw
  /\ \A j \in 1..Len(tickets) : tickets[j].key # Empty
  /\ (\A i \in 1..(idx - 1) : ~IsValidKeyed(feed[i])) => tickets = <<>>

\* C2 witness: the parser has returned from a feed holding a readable item
\* with no key and a keyed item
C2_Witness ==
  /\ ppc = "returned"
  /\ \E i \in 1..Len(feed) : ~feed[i].fault /\ ClaimKey(feed[i]) = Empty
  /\ tickets # <<>>

\* C3: at every point of the loop the tickets are those of the items read so
\* far with the failing items left out, one warning is logged per failing
\* item, and the loop goes on
C3_FailureCaughtPerItem ==
  LET done == SubSeq(feed, 1, idx - 1) IN
    /\ ~threw
    /\ tickets = parseJiraXML(variant, SelectSeq(done, IsValid))
    /\ warned = Len(done) - Len(SelectSeq(done, IsValid))

\* C3 witness: a failing item came first and the item after it was parsed
C3_Witness ==
  /\ ppc = "returned"
  /\ Len(feed) >= 2
  /\ feed[1].fault
  /\ ~feed[2].fault
  /\ Len(tickets) = 1


\* ------------------------------------------- entity decoding in the parser
\* the atoms of free text: the pieces of the four entities, an ordinary
\* character and white space
TextAtoms == {"&", "lt;", "gt;", "amp;", "quot;", "x", " "}

\* a feed of one item that carries the text as its description or as the
\* body of its only comment
InitDecode ==
  /\ variant \in Variants
  /\ RenderIdle
  /\ PageIdle
  /\ SortIdle
  /\ \E text \in SeqsUpTo(TextAtoms, MaxText) :
       feed \in {<<[BaseItem EXCEPT !.key = Some(<<"PROJ-1">>), !.description = Some(text)]>>,
                 <<[BaseItem EXCEPT !.key = Some(<<"PROJ-1">>),
                                    !.comments = Some(<<[BaseComment EXCEPT !.body = text]>>)]>>}
  /\ idx = 1
  /\ tickets = <<>>
  /\ warned = 0
  /\ threw = FALSE
  /\ ppc = "loop"

SpecDecode == InitDecode /\ [][NextParse]_vars

\* the number of places where pat occurs in s
Occurrences(s, pat) ==
  Cardinality({i \in 1..(Len(s) - Len(pat) + 1) : SubSeq(s, i, i + Len(pat) - 1) = pat})

Entities == {EntLt, EntGt, EntAmp, EntQuot}

\* the free texts of the feed with the text the parser made of each
DecodedPairs ==
  {[in |-> textContent(feed[1].description), out |-> tickets[1].description] :
     x \in {y \in {1} : tickets # <<>> /\ feed[1].description # None}}
  \cup
  {[in |-> feed[1].comments[1][1].body, out |-> tickets[1].comments[1].body] :
     x \in {y \in {1} : tickets # <<>> /\ feed[1].comments # None}}

\* C9 as stated: no entity that the feed text contained remains in the
\* parsed text
C9_NoEntityRemains ==
  \A p \in DecodedPairs : \A e \in Entities : Contains(p.in, e) => ~Contains(p.out, e)

\* C9, amended: every &lt; and &gt; of the feed text has become < and >, no
\* &quot; remains, and &lt; &gt; &amp; remain only where the feed text held
\* the escaped form &amp;lt; &amp;gt; &amp;amp;
C9_EntitiesDecoded ==
  \A p \in DecodedPairs :
    /\ Occurrences(p.out, <<"<">>) = Occurrences(p.in, EntLt)
    /\ Occurrences(p.out, <<">">>) = Occurrences(p.in, EntGt)
    /\ Occurrences(p.out, <<"\"">>) >= Occurrences(p.in, EntQuot)
    /\ ~Contains(p.out, EntQuot)
    /\ \A e \in {EntLt, EntGt, EntAmp} : Contains(p.out, e) => Contains(p.in, EntAmp \o Tail(e))
    /\ (~Contains(p.in, EntAmp) => \A e \in Entities : ~Contains(p.out, e))

\* C9 witness: a parsed text whose feed text held an entity between other
\* characters
C9_Witness ==
  \E p \in DecodedPairs :
    /\ \E e \in Entities : Contains(p.in, e)
    /\ Contains(p.in, <<"x">>)
    /\ \E c \in {"<", ">", "&", "\""} : Contains(p.out, <<c>>)


\* ---------------------------------------------------------------- grouping
\* String.prototype.toLowerCase, atom by atom
LowerAtom(a) ==
  CASE a = "Story" -> "story"
    [] a = "STORY" -> "story"
    [] a = "Task" -> "task"
    [] a = "Sub-" -> "sub-"
    [] a = "User" -> "user"
    [] a = "Bug" -> "bug"
    [] OTHER -> a

toLowerCase(s) == [i \in 1..Len(s) |-> LowerAtom(s[i])]

\* a test for "story" that skips toLowerCase
isStoryCaseSensitive(t) == Contains(t.type, <<"story">>)

\* (t.type || '').toLowerCase().includes('story')
isStory(t) == Contains(toLowerCase(t.type), <<"story">>)

\* the position of the entry named name in an insertion-ordered object, 0
\* when the object has no such property
IndexOf(obj, name) ==
  IF \E i \in 1..Len(obj) : obj[i].name = name
  THEN CHOOSE i \in 1..Len(obj) : obj[i].name = name
  ELSE 0

\* obj[name], <<>> when undefined
Lookup(obj, name) == IF IndexOf(obj, name) = 0 THEN <<>> ELSE obj[IndexOf(obj, name)]

\* the array index a property name is, -1 when it is not one (the names are
\* texts; only canonical numerals are array indices)
ArrayIndex(name) ==
  CASE name = <<"7">> -> 7
    [] name = <<"12">> -> 12
    [] OTHER -> -1

\* obj[name] = value for a new name, in the order in which Object.entries
\* and Object.keys list the properties: array indices first, ascending, then
\* the other names in the order of their creation
defineProperty(obj, entry) ==
  IF ArrayIndex(entry.name) < 0 THEN Append(obj, entry)
  ELSE LET k == Cardinality({i \in 1..Len(obj) :
                              /\ ArrayIndex(obj[i].name) >= 0
                              /\ ArrayIndex(obj[i].name) < ArrayIndex(entry.name)})
       IN  SubSeq(obj, 1, k) \o <<entry>> \o SubSeq(obj, k + 1, Len(obj))

\* { userStories: [], tasks: [], raw: [] }
NewBucket(name) == [name |-> name, userStories |-> <<>>, tasks |-> <<>>, raw |-> <<>>]

\* a grouping that files a story under the tasks as well
addToBucketBoth(v, b, t) ==
  [b EXCEPT !.raw = IF v = "legacy" THEN @ ELSE Append(@, t),
            !.userStories = IF isStory(t) THEN Append(@, t) ELSE @,
            !.tasks = Append(@, t)]

\* raw.push(t); if (story) userStories.push(t); else tasks.push(t)
addToBucket(v, b, t) ==
  [b EXCEPT !.raw = IF v = "legacy" THEN @ ELSE Append(@, t),
            !.userStories = IF isStory(t) THEN Append(@, t) ELSE @,
            !.tasks = IF isStory(t) THEN @ ELSE Append(@, t)]

\* the reducer of groupTicketsByAssignee
groupByAssigneeStep(v, acc, t) ==
  LET name == IF v = "legacy" THEN t.assignee ELSE Or(t.assignee, <<"Unassigned">>)
      acc1 == IF IndexOf(acc, name) = 0 THEN defineProperty(acc, NewBucket(name)) ELSE acc
  IN  [acc1 EXCEPT ![IndexOf(acc1, name)] = addToBucket(v, @, t)]

\* the reducer of groupTicketsBySprintAndAssignee
groupBySprintStep(acc, t) ==
  LET sprint == Or(t.sprint, <<"No Sprint">>)
      acc1 == IF IndexOf(acc, sprint) = 0
              THEN defineProperty(acc, [name |-> sprint, assignees |-> <<>>]) ELSE acc
  IN  [acc1 EXCEPT ![IndexOf(acc1, sprint)].assignees = groupByAssigneeStep("sprint", @, t)]

\* the reducer the installed definition uses
groupStep(v, acc, t) ==
  IF v = "sprint" THEN groupBySprintStep(acc, t) ELSE groupByAssigneeStep(v, acc, t)

\* tickets.reduce(reducer, {})
RECURSIVE groupFrom(_, _, _)
groupFrom(v, acc, ts) ==
  IF ts = <<>> THEN acc ELSE groupFrom(v, groupStep(v, acc, Head(ts)), Tail(ts))

groupTickets(v, ts) == groupFrom(v, <<>>, ts)

\* --------------------------------------------------------------- rendering
Standalone == <<"standalone">>

\* bucket.tasks.reduce: the tasks of a bucket under their parentKey, those
\* without one under 'standalone'
RECURSIVE tasksByParentFrom(_, _)
tasksByParentFrom(acc, tasks) ==
  IF tasks = <<>> THEN acc
  ELSE LET t == Head(tasks)
           parent == Or(t.parentKey, Standalone)
           acc1 == IF IndexOf(acc, parent) = 0
                   THEN defineProperty(acc, [name |-> parent, tasks |-> <<>>]) ELSE acc
       IN  tasksByParentFrom([acc1 EXCEPT ![IndexOf(acc1, parent)].tasks = Append(@, t)],
                             Tail(tasks))

tasksByParent(tasks) == tasksByParentFrom(<<>>, tasks)

\* tasksByParent[key], <<>> when undefined
tasksUnder(tbp, key) == IF IndexOf(tbp, key) = 0 THEN <<>> ELSE Lookup(tbp, key).tasks

\* the markup of one story of an assignee card (i, j: assigneeIndex and
\* storyIndex).  related: the "Related Tasks" sections, which the legacy
\* markup holds twice; description, comments: the identifiers of the
\* toggled sections, None when the section is not rendered
renderStory(v, tbp, story, i, j) ==
  LET rel == tasksUnder(tbp, story.key)
      section == [id |-> <<"story", i, j>>, tasks |-> rel]
  IN  [story |-> story,
       button |-> IF rel # <<>> THEN Some(<<"story", i, j>>) ELSE None,
       related |-> IF rel = <<>> THEN <<>>
                   ELSE IF v = "legacy" THEN <<section, section>> ELSE <<section>>,
       description |-> IF v = "assignee" /\ story.description # Empty
                       THEN Some(<<"description", i, j>>) ELSE None,
       comments |-> IF story.comments # <<>> THEN Some(<<"comments", i, j>>) ELSE None]

\* Object.entries(grouped): one card per assignee, with its stories and its
\* "Standalone Tasks"
renderAssigneeCards(v, groups) ==
  [i \in 1..Len(groups) |->
     LET bucket == groups[i]
         tbp == tasksByParent(bucket.tasks)
     IN  [name |-> bucket.name,
          id |-> <<"assignee", i - 1>>,
          stories |-> [j \in 1..Len(bucket.userStories) |->
                         renderStory(v, tbp, bucket.userStories[j], i - 1, j - 1)],
          standalone |-> tasksUnder(tbp, Standalone)]]

\* the assignees of a sprint that have user stories, each with its stories
RECURSIVE renderSprintAssignees(_)
renderSprintAssignees(buckets) ==
  IF buckets = <<>> THEN <<>>
  ELSE LET bucket == Head(buckets) IN
       (IF bucket.userStories = <<>> THEN <<>>
        ELSE <<[name |-> bucket.name,
                stories |-> [j \in 1..Len(bucket.userStories) |->
                               [story |-> bucket.userStories[j]]]]>>)
       \o renderSprintAssignees(Tail(buckets))

\* Object.entries(grouped) of the sprint variant: one card per sprint
renderSprintCards(groups) ==
  [i \in 1..Len(groups) |->
     [name |-> groups[i].name,
      id |-> <<"sprint", i - 1>>,
      assignees |-> renderSprintAssignees(groups[i].assignees)]]

\* tickets.filter(t => type.toLowerCase().includes(word)).length
CountType(ts, word) ==
  Cardinality({i \in 1..Len(ts) : Contains(toLowerCase(ts[i].type), <<word>>)})

\* calculateStats / the stats object of renderDashboard; groups counts the
\* assignees (the sprints in the sprint variant)
renderStats(v, ts, groups) ==
  [totalTickets |-> Len(ts),
   userStories |-> CountType(ts, "story"),
   tasks |-> CountType(ts, "task"),
   groups |-> IF v = "legacy" THEN Cardinality({ts[i].assignee : i \in 1..Len(ts)})
              ELSE Len(groups)]

\* the markup renderDashboard builds; sort: currentSort (legacy header),
\* error: the error message argument (legacy), None in the other variants
renderMarkup(v, ts, groups, sort, error) ==
  [stats |-> renderStats(v, ts, groups),
   sort |-> IF v = "legacy" THEN sort ELSE None,
   error |-> IF v = "legacy" THEN error ELSE None,
   noTickets |-> v = "legacy" /\ Len(ts) = 0 /\ error = None,
   cards |-> IF v = "sprint" THEN renderSprintCards(groups) ELSE renderAssigneeCards(v, groups)]

\* ------------------------------------------------- the overlay's elements
\* the arrows of the toggle buttons: '\u25B6' (collapsed) and '\u25BC' (expanded)
ArrowCollapsed == <<"arrow-right">>
ArrowExpanded == <<"arrow-down">>

\* ${story.comments.length}
CountText(n) == IF n = 1 THEN "1" ELSE IF n = 2 THEN "2" ELSE "many"

\* the text of the comments button as rendered
CommentsCollapsedText(story) ==
  <<"comments-icon", CountText(Len(story.comments)),
    IF Len(story.comments) > 1 THEN "Comments" ELSE "Comment", "arrow-right">>
CommentsExpandedText == <<"comments-icon", "Hide Comments", "arrow-down">>
DescriptionCollapsedText == <<"note-icon", "View Description", "arrow-right">>
DescriptionExpandedText == <<"note-icon", "Hide Description", "arrow-down">>

\* <button data-toggle=id data-collapsed-text=.. data-expanded-text=..>text</button>;
\* the legacy markup has no data-collapsed-text and no data-expanded-text
ButtonElement(v, id, collapsed, expanded) ==
  [tag |-> "button", id |-> None, toggle |-> Some(id), display |-> "",
   text |-> collapsed,
   collapsedText |-> IF v = "legacy" THEN None ELSE Some(collapsed),
   expandedText |-> IF v = "legacy" THEN None ELSE Some(expanded)]

\* <div id=id style="display:none">
SectionElement(id) ==
  [tag |-> "div", id |-> Some(id), toggle |-> None, display |-> "none",
   text |-> Empty, collapsedText |-> None, expandedText |-> None]

\* the buttons and sections of one story, in the order of the markup
storyElements(v, s) ==
  LET storyButton == IF s.button = None THEN <<>>
                     ELSE <<ButtonElement(v, s.button[1], ArrowCollapsed, ArrowExpanded)>>
      description == IF s.description = None THEN <<>>
                     ELSE <<ButtonElement(v, s.description[1], DescriptionCollapsedText,
                                          DescriptionExpandedText),
                            SectionElement(s.description[1])>>
      comments == IF s.comments = None THEN <<>>
                  ELSE <<ButtonElement(v, s.comments[1], CommentsCollapsedText(s.story),
                                       CommentsExpandedText),
                         SectionElement(s.comments[1])>>
      related == [k \in 1..Len(s.related) |-> SectionElement(s.related[k].id)]
  IN  IF v = "legacy" THEN storyButton \o comments \o related
      ELSE storyButton \o description \o related \o comments

RECURSIVE storiesElements(_, _)
storiesElements(v, stories) ==
  IF stories = <<>> THEN <<>>
  ELSE storyElements(v, Head(stories)) \o storiesElements(v, Tail(stories))

\* the button and the section of each card, the section's stories inside
RECURSIVE cardsElements(_, _)
cardsElements(v, cards) ==
  IF cards = <<>> THEN <<>>
  ELSE LET c == Head(cards) IN
       <<ButtonElement(v, c.id, ArrowCollapsed, ArrowExpanded), SectionElement(c.id)>>
       \o (IF v = "sprint" THEN <<>> ELSE storiesElements(v, c.stories))
       \o cardsElements(v, Tail(cards))

\* the elements of the overlay that toggleJiraSection can reach
documentOf(v, markup) == cardsElements(v, markup.cards)

\* the index of the first element satisfying the test, 0 when there is none
\* (document.getElementById and document.querySelector return the first match)
FirstWithId(d, id) ==
  IF \E k \in 1..Len(d) : d[k].id = Some(id)
  THEN CHOOSE k \in 1..Len(d) : d[k].id = Some(id) /\ \A m \in 1..(k - 1) : d[m].id # Some(id)
  ELSE 0
FirstWithToggle(d, id) ==
  IF \E k \in 1..Len(d) : d[k].toggle = Some(id)
  THEN CHOOSE k \in 1..Len(d) : d[k].toggle = Some(id) /\ \A m \in 1..(k - 1) : d[m].toggle # Some(id)
  ELSE 0

\* window.toggleJiraSection(sectionId)
toggleJiraSection(v, d, id) ==
  LET el == FirstWithId(d, id)
      btn == FirstWithToggle(d, id)
  IN  IF el = 0 \/ btn = 0 THEN d
      ELSE LET expanded == d[el].display # "none" IN
           [d EXCEPT ![el].display = IF expanded THEN "none" ELSE "block",
                     ![btn].text =
                        IF v = "legacy"
                        THEN (IF expanded THEN ArrowCollapsed ELSE ArrowExpanded)
                        ELSE IF expanded THEN Or(textContent(d[btn].collapsedText), ArrowCollapsed)
                             ELSE Or(textContent(d[btn].expandedText), ArrowExpanded)]

\* let currentSort = { field: 'updated', direction: 'desc' }
InitialSort == Some([field |-> "updated", direction |-> "desc"])


\* the variables of parseJiraXML when no parse is being followed
ParseIdle ==
  /\ feed = <<>>
  /\ idx = 1
  /\ tickets = <<>>
  /\ warned = 0
  /\ threw = FALSE
  /\ ppc = "idle"

\* ---------------------------------------- renderDashboard, step by step
SprintField == [name |-> Some(<<"Sprint">>), value |-> Some(<<"S1">>)]

\* the items whose tickets are grouped and rendered: stories and tasks of two
\* assignees, tasks with no parent, with a parent in the feed and with a
\* parent outside it; in the sprint variant with and without a sprint
RenderItems(v) ==
  {[BaseItem EXCEPT !.key = Some(k), !.type = ty, !.assignee = Some(a), !.parent = p,
                    !.customfields = cf] :
     k \in {<<"PROJ-1">>, <<"PROJ-2">>},
     ty \in {Some(<<"Story">>), None},
     a \in {<<"Alice">>, <<"Bob">>},
     p \in {None, Some(<<"PROJ-1">>), Some(<<"PROJ-9">>)},
     cf \in IF v = "sprint" THEN {<<>>, <<SprintField>>} ELSE {<<>>}}

InitRender ==
  /\ variant \in Variants
  /\ ParseIdle
  /\ PageIdle
  /\ SortIdle
  /\ \E f \in SeqsUpTo(RenderItems(variant), MaxItems) : rtickets = parseJiraXML(variant, f)
  /\ gidx = 1
  /\ grouped = <<>>
  /\ view = <<>>
  /\ gpc = "group"
  /\ doc = <<>>

\* one call of the reducer of tickets.reduce
GroupTicket ==
  /\ gpc = "group"
  /\ gidx <= Len(rtickets)
  /\ grouped' = groupStep(variant, grouped, rtickets[gidx])
  /\ gidx' = gidx + 1
  /\ UNCHANGED <<variant, parseVars, rtickets, view, gpc, doc, pageVars, sortVars>>

\* the markup is built from the groups
RenderGroups ==
  /\ gpc = "group"
  /\ gidx > Len(rtickets)
  /\ view' = renderMarkup(variant, rtickets, grouped, InitialSort, None)
  /\ doc' = documentOf(variant, view')
  /\ gpc' = "rendered"
  /\ UNCHANGED <<variant, parseVars, rtickets, gidx, grouped, pageVars, sortVars>>

NextRender == GroupTicket \/ RenderGroups

SpecRender == InitRender /\ [][NextRender]_vars

\* ------------------------------------------- claims on grouping and rendering
Range(q) == {q[i] : i \in 1..Len(q)}

\* the buckets of the grouping with the sprint each lies under (Empty in the
\* assignee variants)
RECURSIVE FlatBuckets(_)
FlatBuckets(groups) ==
  IF groups = <<>> THEN <<>>
  ELSE [k \in 1..Len(Head(groups).assignees) |->
          [sprint |-> Head(groups).name, bucket |-> Head(groups).assignees[k]]]
       \o FlatBuckets(Tail(groups))

BucketsOf(v, groups) ==
  IF v = "sprint" THEN FlatBuckets(groups)
  ELSE [k \in 1..Len(groups) |-> [sprint |-> Empty, bucket |-> groups[k]]]

StandaloneShown(v, vw) ==
  IF v = "sprint" THEN {}
  ELSE UNION {Range(vw.cards[i].standalone) : i \in 1..Len(vw.cards)}

\* the tasks shown in a "Related Tasks" section of story s in the markup
RelatedShown(v, vw, s) ==
  IF v = "sprint" THEN {}
  ELSE UNION {Range(sec.tasks) :
                sec \in UNION {Range(sv.related) :
                                 sv \in {x \in UNION {Range(vw.cards[i].stories) : i \in 1..Len(vw.cards)} :
                                           x.story = s}}}

Stories(ts) == {t \in Range(ts) : isStory(t)}
Tasks(ts) == {t \in Range(ts) : ~isStory(t)}

\* C5: in the markup rendered by the definitions that build tasksByParent,
\* every task whose parentKey is the key of no story of the ticket list is
\* among the standalone tasks
C5_UnmatchedTaskStandalone ==
  (gpc = "rendered" /\ variant # "sprint") =>
    \A t \in Tasks(rtickets) :
      (\A s \in Stories(rtickets) : s.key # t.parentKey) => t \in StandaloneShown(variant, view)

\* C6: in the markup rendered by the definitions that build tasksByParent,
\* every task whose parentKey is the key of a story of the ticket list is in
\* that story's related-tasks section
C6_LinkedTaskUnderStory ==
  (gpc = "rendered" /\ variant # "sprint") =>
    \A t \in Tasks(rtickets) : \A s \in Stories(rtickets) :
      s.key = t.parentKey => t \in RelatedShown(variant, view, s)


\* ----------------------------------------------------------------- the page
\* the page state the handlers read and write, as one record
Page == [dom |-> dom, calls |-> calls, console |-> console, unhandled |-> unhandled]

LoadingElement(i) == [kind |-> "loading", owner |-> i, view |-> <<>>, listener |-> FALSE]
DashboardElement(i, vw) == [kind |-> "dashboard", owner |-> i, view |-> vw, listener |-> FALSE]

\* a removal that finds nothing
removeExistingNone(d) == d

\* const existing = document.getElementById('jira-dashboard-popup');
\* if (existing) existing.remove();  -- getElementById yields the first
\* element with the identifier, in document order
removeExisting(d) == IF d = <<>> THEN d ELSE Tail(d)

\* document.body.insertAdjacentHTML('beforeend', html)
insertBeforeEnd(d, el) == Append(d, el)

\* document.getElementById('jira-dashboard-popup').addEventListener('click',
\* ...): the listener goes to the first element with the identifier
attachDismiss(d) == IF d = <<>> THEN d ELSE [d EXCEPT ![1].listener = TRUE]

\* the loading overlay: the legacy definition inserts it as it is, the other
\* two remove an existing overlay first
showLoading(v, d, i) ==
  insertBeforeEnd(IF v = "legacy" THEN d ELSE removeExisting(d), LoadingElement(i))

\* a render that stores the data and inserts nothing
renderDashboardNoInsert(v, pg, i, ts, error) ==
  [pg EXCEPT !.calls[i].currentData =
               [tickets |-> ts, groupedTickets |-> groupTickets(v, ts),
                stats |-> renderStats(v, ts, groupTickets(v, ts))],
             !.calls[i].lastView =
               renderMarkup(v, ts, groupTickets(v, ts), pg.calls[i].currentSort, error)]

\* a render that stores the tickets and leaves the rest of the snapshot
renderDashboardStale(v, pg, i, ts, error) ==
  LET vw == renderMarkup(v, ts, groupTickets(v, ts), pg.calls[i].currentSort, error)
  IN  [pg EXCEPT !.calls[i].currentData.tickets = ts,
                 !.calls[i].lastView = vw,
                 !.dom = attachDismiss(insertBeforeEnd(removeExisting(pg.dom), DashboardElement(i, vw)))]

\* a render whose markup reads the console
renderDashboardReadingPage(v, pg, i, ts, error) ==
  LET groups == groupTickets(v, ts)
      vw == [renderMarkup(v, ts, groups, pg.calls[i].currentSort, error)
               EXCEPT !.noTickets = (pg.console # {})]
  IN  [pg EXCEPT !.calls[i].currentData =
                    [tickets |-> ts, groupedTickets |-> groups, stats |-> renderStats(v, ts, groups)],
                 !.calls[i].lastView = vw,
                 !.dom = attachDismiss(insertBeforeEnd(removeExisting(pg.dom), DashboardElement(i, vw)))]

\* renderDashboard(tickets, error) in the closure of call i; lastView keeps
\* the markup of the closure's last render
renderDashboard(v, pg, i, ts, error) ==
  LET groups == groupTickets(v, ts)
      vw == renderMarkup(v, ts, groups, pg.calls[i].currentSort, error)
  IN  [pg EXCEPT !.calls[i].currentData =
                    [tickets |-> ts, groupedTickets |-> groups, stats |-> renderStats(v, ts, groups)],
                 !.calls[i].lastView = vw,
                 !.dom = attachDismiss(insertBeforeEnd(removeExisting(pg.dom), DashboardElement(i, vw)))]

\* console.error / console.log
consoleWrite(pg, i, level, what) ==
  [pg EXCEPT !.console = @ \cup {[owner |-> i, level |-> level, what |-> what]}]

\* a rejection handler that logs and renders nothing
onRejectedLogOnly(v, pg, i, err) == consoleWrite(pg, i, "error", err)

\* .catch(err => { renderDashboard([]); console.error(err); })  (legacy:
\* console.error in fetchJiraData and in the handler, then
\* renderDashboard([], error.message))
onRejected(v, pg, i, err) ==
  renderDashboard(v, consoleWrite(pg, i, "error", err), i, <<>>,
                  IF v = "legacy" THEN Some(err) ELSE None)

\* .then(tickets => renderDashboard(tickets)), with the console.log of the
\* legacy and the sprint definitions
onFulfilled(v, pg, i, ts) ==
  LET pg1 == renderDashboard(v, pg, i, ts, None)
  IN  IF v = "assignee" THEN pg1 ELSE consoleWrite(pg1, i, "log", "tickets")

\* the value of new Date(text): 0 stands for an invalid date (NaN)
DateValue(t) ==
  CASE t = <<"d1">> -> 1
    [] t = <<"d2">> -> 2
    [] t = <<"d3">> -> 3
    [] t = Now -> 9
    [] OTHER -> 0

Permutations1(n) == {f \in [1..n -> 1..n] : \A a, b \in 1..n : f[a] = f[b] => a = b}

\* [...tickets].sort(compare): the comparator never returns 0, so among
\* tickets with equal dates the order is the engine's choice, and with an
\* invalid date the whole order is: the set of possible results
sortTickets(ts, field, direction) ==
  LET val(t) == DateValue(IF field = "created" THEN t.created ELSE t.updated)
      anyNaN == \E k \in 1..Len(ts) : val(ts[k]) = 0
      ordered(q) == \A a, b \in 1..Len(q) :
                      a < b => IF direction = "asc" THEN val(q[a]) <= val(q[b])
                               ELSE val(q[a]) >= val(q[b])
  IN  {q \in {[k \in 1..Len(ts) |-> ts[f[k]]] : f \in Permutations1(Len(ts))} :
         anyNaN \/ ordered(q)}

\* the last two operations on the page
Note(ops, op) == IF Len(ops) < 2 THEN Append(ops, op) ELSE <<ops[2], op>>

\* the feeds the server answers with
ItemS ==
  [BaseItem EXCEPT !.key = Some(<<"PROJ-1">>), !.type = Some(<<"Story">>),
                   !.assignee = Some(<<"Alice">>), !.updated = Some(<<"d1">>),
                   !.created = Some(<<"d2">>)]
ItemT ==
  [BaseItem EXCEPT !.key = Some(<<"PROJ-2">>), !.type = Some(<<"Task">>),
                   !.assignee = Some(<<"Alice">>), !.parent = Some(<<"PROJ-1">>),
                   !.updated = Some(<<"d2">>), !.created = Some(<<"d1">>)]
ItemB ==
  [BaseItem EXCEPT !.key = Some(<<"PROJ-3">>), !.type = Some(<<"Story">>),
                   !.reporter = Some(<<"Bob">>), !.customfields = <<SprintField>>]

PageFeeds == {<<>>, <<ItemS, ItemT>>, <<ItemB>>}

Init ==
  /\ variant \in Variants
  /\ ParseIdle
  /\ RenderIdle
  /\ PageIdle
  /\ SortIdle

SetPage(pg) ==
  /\ dom' = pg.dom
  /\ calls' = pg.calls
  /\ console' = pg.console
  /\ unhandled' = pg.unhandled

\* window.createJiraDashboard(config): the closure is created, the global
\* functions are defined, the loading overlay is shown and the fetch starts;
\* the legacy definition then calls showLoadingPopup, which is not defined
CreateJiraDashboard ==
  /\ Len(calls) < MaxCalls
  /\ LET i == Len(calls) + 1 IN
       /\ calls' = Append(calls,
                     [status |-> "fetching",
                      currentData |-> [tickets |-> <<>>, groupedTickets |-> <<>>, stats |-> <<>>],
                      currentSort |-> IF variant = "legacy" THEN InitialSort ELSE None,
                      lastView |-> <<>>])
       /\ dom' = showLoading(variant, dom, i)
       /\ toggleFn' = i
       /\ sortFn' = IF variant = "legacy" THEN i ELSE sortFn
       /\ thrown' = IF variant = "legacy" THEN thrown \cup {i} ELSE thrown
  /\ lastOps' = Note(lastOps, "loading")
  /\ UNCHANGED <<variant, parseVars, renderVars, sortVars, console, unhandled>>

\* the promise of fetch() rejects: the rejection handler runs
FetchRejected(i) ==
  /\ calls[i].status = "fetching"
  /\ SetPage([onRejected(variant, Page, i, "network") EXCEPT !.calls[i].status = "failed"])
  /\ lastOps' = Note(lastOps, "render")
  /\ UNCHANGED <<variant, parseVars, renderVars, sortVars, thrown, sortFn, toggleFn>>

\* the promise of fetch() resolves with a response whose status is not 2xx:
\* fetchJiraData throws and the rejection handler runs
FetchNotOk(i) ==
  /\ calls[i].status = "fetching"
  /\ SetPage([onRejected(variant, Page, i, "http") EXCEPT !.calls[i].status = "failed"])
  /\ lastOps' = Note(lastOps, "render")
  /\ UNCHANGED <<variant, parseVars, renderVars, sortVars, thrown, sortFn, toggleFn>>

\* the promise of fetch() resolves with a 2xx response: fetchJiraData
\* suspends again at await response.text()
FetchOk(i) ==
  /\ calls[i].status = "fetching"
  /\ calls' = [calls EXCEPT ![i].status = "reading"]
  /\ UNCHANGED <<variant, parseVars, renderVars, sortVars, dom, console, unhandled, thrown, sortFn,
                 toggleFn, lastOps>>

\* response.text() resolves: the text is parsed and the dashboard rendered
BodyRead(i) ==
  /\ calls[i].status = "reading"
  /\ \E f \in PageFeeds :
       SetPage([onFulfilled(variant, Page, i, parseJiraXML(variant, f))
                  EXCEPT !.calls[i].status = "rendered"])
  /\ lastOps' = Note(lastOps, "render")
  /\ UNCHANGED <<variant, parseVars, renderVars, sortVars, thrown, sortFn, toggleFn>>

\* response.text() rejects: the rejection handler runs
BodyFailed(i) ==
  /\ calls[i].status = "reading"
  /\ SetPage([onRejected(variant, Page, i, "body") EXCEPT !.calls[i].status = "failed"])
  /\ lastOps' = Note(lastOps, "render")
  /\ UNCHANGED <<variant, parseVars, renderVars, sortVars, thrown, sortFn, toggleFn>>

TopIsDashboard == dom # <<>> /\ dom[Len(dom)].kind = "dashboard"

\* the close button of the dashboard shown:
\* document.getElementById('jira-dashboard-popup').remove()
ClickClose ==
  /\ TopIsDashboard
  /\ dom' = removeExisting(dom)
  /\ lastOps' = Note(lastOps, "remove")
  /\ UNCHANGED <<variant, parseVars, renderVars, sortVars, calls, console, unhandled, thrown, sortFn, toggleFn>>

\* a click on the backdrop of the overlay shown, where it carries the
\* listener: the element removes itself
ClickOutside ==
  /\ dom # <<>>
  /\ dom[Len(dom)].listener
  /\ dom' = SubSeq(dom, 1, Len(dom) - 1)
  /\ lastOps' = Note(lastOps, "remove")
  /\ UNCHANGED <<variant, parseVars, renderVars, sortVars, calls, console, unhandled, thrown, sortFn, toggleFn>>

\* a direction that flips whatever the field
sortDirectionFlip(cur, field) == IF cur.direction = "desc" THEN "asc" ELSE "desc"

\* (currentSort.field === field && currentSort.direction === 'desc') ? 'asc' : 'desc'
sortDirection(cur, field) ==
  IF cur.field = field /\ cur.direction = "desc" THEN "asc" ELSE "desc"

\* a sort button of the dashboard shown: window.sortJiraTickets(field), which
\* runs in the closure of the call that defined it last
SortJiraTickets(field) ==
  /\ TopIsDashboard
  /\ sortFn # 0
  /\ LET c == sortFn
         direction == sortDirection(calls[c].currentSort[1], field)
     IN  \E sorted \in sortTickets(calls[c].currentData.tickets, field, direction) :
           SetPage(renderDashboard(variant,
                     [Page EXCEPT !.calls[c].currentSort = Some([field |-> field, direction |-> direction]),
                                  !.calls[c].currentData.groupedTickets = groupTickets(variant, sorted)],
                     c, sorted, None))
  /\ lastOps' = Note(lastOps, "render")
  /\ UNCHANGED <<variant, parseVars, renderVars, sortVars, thrown, sortFn, toggleFn>>

Next ==
  \/ CreateJiraDashboard
  \/ \E i \in 1..Len(calls) : FetchRejected(i)
  \/ \E i \in 1..Len(calls) : FetchNotOk(i)
  \/ \E i \in 1..Len(calls) : FetchOk(i)
  \/ \E i \in 1..Len(calls) : BodyRead(i)
  \/ \E i \in 1..Len(calls) : BodyFailed(i)
  \/ ClickClose
  \/ ClickOutside
  \/ \E field \in {"created", "updated"} : SortJiraTickets(field)

Spec == Init /\ [][Next]_vars

\* ------------------------------------------------------------ page claims
Shown == dom[Len(dom)]

Pending(c) == c.status \in {"fetching", "reading"}

\* C7: after renderDashboard has run twice in a row, the page holds exactly
\* one element with the overlay identifier.
C7_RenderTwiceOneOverlay ==
  lastOps = <<"render", "render">> => Len(dom) = 1

EmptyDashboardOf(i, el) ==
  /\ el.kind = "dashboard"
  /\ el.owner = i
  /\ el.view.stats.totalTickets = 0
  /\ el.view.stats.groups = 0
  /\ el.view.cards = <<>>

\* C8: the step in which the fetch of a call fails (rejected request,
\* status not 2xx) ends with an empty dashboard of that call shown, zero
\* tickets and no groups, and the error on the console; nothing becomes an
\* unhandled rejection.
C8_FailedFetchRendersEmpty ==
  [][\A i \in 1..Len(calls) :
       (Pending(calls[i]) /\ calls'[i].status = "failed") =>
         /\ dom' # <<>>
         /\ EmptyDashboardOf(i, dom'[Len(dom')])
         /\ calls'[i].currentData.tickets = <<>>
         /\ calls'[i].currentData.groupedTickets = <<>>
         /\ \E e \in console' \ console : e.owner = i /\ e.level = "error"
         /\ unhandled' = unhandled
         /\ unhandled' = {}]_vars

C8_Witness ==
  \E i \in 1..Len(calls) :
    /\ calls[i].status = "failed"
    /\ dom # <<>>
    /\ EmptyDashboardOf(i, Shown)
    /\ \E e \in console : e.owner = i /\ e.level = "error" /\ e.what = "http"

\* C10 as stated: no state in which the fetch of a call has settled and the
\* loading overlay of that call is still the one shown.
C10_NoLoadingAfterFetchSettles ==
  \A i \in 1..Len(calls) :
    calls[i].status # "fetching" =>
      ~(dom # <<>> /\ Shown.kind = "loading" /\ Shown.owner = i)

\* C10, amended: a call suspends at the fetch and at the read of the body;
\* the step in which the fetch fails or the read of the body settles parses
\* and renders at once and ends with the dashboard of that call shown, and
\* from then on the loading overlay of that call is never the one shown.
C10_SettledStepRenders ==
  /\ [](\A i \in 1..Len(calls) :
          ~Pending(calls[i]) =>
            ~(dom # <<>> /\ Shown.kind = "loading" /\ Shown.owner = i))
  /\ [][\A i \in 1..Len(calls) :
          (Pending(calls[i]) /\ ~Pending(calls'[i])) =>
            /\ dom' # <<>>
            /\ dom'[Len(dom')].kind = "dashboard"
            /\ dom'[Len(dom')].owner = i
            /\ dom'[Len(dom')].view.stats.totalTickets = Len(calls'[i].currentData.tickets)]_vars

C10_Witness ==
  \E i \in 1..Len(calls) :
    /\ calls[i].status = "rendered"
    /\ calls[i].currentData.tickets # <<>>
    /\ dom # <<>>
    /\ Shown.kind = "dashboard"
    /\ Shown.owner = i

\* ------------------------------------------------- the functions on window
\* the functions of window that the onclick attributes of a dashboard call:
\* the sort buttons of the legacy header, the toggles of the cards
inlineHandlers(v, vw) ==
  (IF v = "legacy" THEN {"sortJiraTickets"} ELSE {})
  \cup (IF vw.cards # <<>> THEN {"toggleJiraSection"} ELSE {})

\* the functions createJiraDashboard has assigned to window so far
windowFunctions ==
  (IF toggleFn # 0 THEN {"toggleJiraSection"} ELSE {})
  \cup (IF sortFn # 0 THEN {"sortJiraTickets"} ELSE {})

\* C11: once createJiraDashboard has been called, window.toggleJiraSection
\* and window.sortJiraTickets both exist, and every function an inline
\* handler of a dashboard in the page calls is defined.
C11_GlobalFunctionsDefined ==
  calls # <<>> =>
    /\ windowFunctions = {"toggleJiraSection", "sortJiraTickets"}
    /\ \A k \in 1..Len(dom) :
         dom[k].kind = "dashboard" => inlineHandlers(variant, dom[k].view) \subseteq windowFunctions

\* ---------------------------------------------------- the current-data snapshot
\* let currentData = { tickets: [], groupedTickets: {}, stats: {} }
InitialData == [tickets |-> <<>>, groupedTickets |-> <<>>, stats |-> <<>>]

HasRendered(c) == c.lastView # <<>>

NumeralSprintField == [name |-> Some(<<"Sprint">>), value |-> Some(<<"7">>)]

OrderItems(v) ==
  {[BaseItem EXCEPT !.key = Some(k), !.type = ty, !.assignee = Some(a), !.customfields = cf] :
     k \in {<<"PROJ-1">>, <<"PROJ-2">>},
     ty \in {Some(<<"Story">>), None},
     a \in {<<"Alice">>, <<"7">>},
     cf \in IF v = "sprint" THEN {<<SprintField>>, <<NumeralSprintField>>} ELSE {<<>>}}

InitOrder ==
  /\ variant \in Variants
  /\ ParseIdle
  /\ PageIdle
  /\ SortIdle
  /\ \E f \in SeqsUpTo(OrderItems(variant), MaxItems) : rtickets = parseJiraXML(variant, f)
  /\ gidx = 1
  /\ grouped = <<>>
  /\ view = <<>>
  /\ gpc = "group"
  /\ doc = <<>>

SpecOrder == InitOrder /\ [][NextRender]_vars

\* the place of the first ticket of an assignee, of a sprint, and of an
\* assignee within a sprint
FirstOfAssignee(ts, a) ==
  CHOOSE i \in 1..Len(ts) : ts[i].assignee = a /\ \A j \in 1..(i - 1) : ts[j].assignee # a
FirstOfSprint(ts, sp) ==
  CHOOSE i \in 1..Len(ts) : ts[i].sprint = sp /\ \A j \in 1..(i - 1) : ts[j].sprint # sp
FirstInSprint(ts, sp, a) ==
  CHOOSE i \in 1..Len(ts) :
    /\ ts[i].sprint = sp /\ ts[i].assignee = a
    /\ \A j \in 1..(i - 1) : ~(ts[j].sprint = sp /\ ts[j].assignee = a)

\* the cards of the assignee variants follow the ticket list
AssigneeCardsInOrder(ts, cards) ==
  /\ \A a, b \in 1..Len(cards) :
       a < b => FirstOfAssignee(ts, cards[a].name) < FirstOfAssignee(ts, cards[b].name)
  /\ \A a \in 1..Len(cards) :
       LET StoryOf(t) == isStory(t) /\ t.assignee = cards[a].name
           LooseTaskOf(t) == ~isStory(t) /\ t.assignee = cards[a].name /\ t.parentKey = Empty
       IN  /\ [j \in 1..Len(cards[a].stories) |-> cards[a].stories[j].story]
                = SelectSeq(ts, StoryOf)
           /\ cards[a].standalone = SelectSeq(ts, LooseTaskOf)

\* the cards of the sprint variant follow the ticket list
SprintCardsInOrder(ts, cards) ==
  /\ \A a, b \in 1..Len(cards) :
       a < b => FirstOfSprint(ts, cards[a].name) < FirstOfSprint(ts, cards[b].name)
  /\ \A a \in 1..Len(cards) :
       LET as == cards[a].assignees IN
         /\ \A x, y \in 1..Len(as) :
              x < y => FirstInSprint(ts, cards[a].name, as[x].name)
                         < FirstInSprint(ts, cards[a].name, as[y].name)
         /\ \A x \in 1..Len(as) :
              LET StoryOf(t) == isStory(t) /\ t.sprint = cards[a].name /\ t.assignee = as[x].name
              IN  [j \in 1..Len(as[x].stories) |-> as[x].stories[j].story] = SelectSeq(ts, StoryOf)

\* C14: the groups are rendered in the order in which their first ticket
\* appears in the ticket list, and the stories and tasks of a group in the
\* order of the ticket list.
C14_FirstSeenOrder ==
  gpc = "rendered" =>
    IF variant = "sprint" THEN SprintCardsInOrder(rtickets, view.cards)
    ELSE AssigneeCardsInOrder(rtickets, view.cards)

\* ------------------------------------------------------- order of the parse
\* the comment elements of an item, in feed order
CommentsOf(it) == IF it.comments = None THEN <<>> ELSE it.comments[1]

\* C15: when parseJiraXML has returned, the tickets are the readable keyed
\* items of the feed in feed order (the place of each ticket's item grows
\* with the place of the ticket and no such item is left out), and the
\* comments of each ticket are the comment elements of its item in their
\* order.
C15_FeedOrderPreserved ==
  ppc = "returned" =>
    \E pos \in [1..Len(tickets) -> 1..Len(feed)] :
      /\ \A a, b \in 1..Len(tickets) : a < b => pos[a] < pos[b]
      /\ {pos[j] : j \in 1..Len(tickets)} = {i \in 1..Len(feed) : IsValidKeyed(feed[i])}
      /\ \A j \in 1..Len(tickets) :
           LET cs == CommentsOf(feed[pos[j]]) IN
             /\ tickets[j].key = ClaimKey(feed[pos[j]])
             /\ Len(tickets[j].comments) = Len(cs)
             /\ \A k \in 1..Len(cs) :
                  /\ tickets[j].comments[k].body = decodeEntities(cs[k].body)
                  /\ tickets[j].comments[k].id = cs[k].id
                  /\ cs[k].author # Empty => tickets[j].comments[k].author = cs[k].author

\* C15 witness: two tickets with different keys were returned, the second
\* with two comments
C15_Witness ==
  /\ ppc = "returned"
  /\ Len(tickets) = 2
  /\ tickets[1].key # tickets[2].key
  /\ Len(tickets[2].comments) = 2
  /\ tickets[2].comments[1].body # tickets[2].comments[2].body

\* ------------------------------------------------------ defaults of the fields
\* items with a key whose type, status, assignee, reporter and priority
\* elements are absent, empty or filled
FieldItems ==
  {[BaseItem EXCEPT !.key = Some(<<"PROJ-1">>), !.type = ty, !.status = st,
                    !.assignee = ar[1], !.reporter = ar[2], !.priority = pr] :
     ty \in {None, Some(Empty), Some(<<"Story">>)},
     st \in {None, Some(<<"Done">>)},
     ar \in {<<None, None>>, <<None, Some(<<"Bob">>)>>, <<Some(<<"Alice">>), Some(<<"Bob">>)>>,
             <<Some(Empty), None>>},
     pr \in {None, Some(<<"High">>)}}

InitFields ==
  /\ variant \in Variants
  /\ RenderIdle
  /\ PageIdle
  /\ SortIdle
  /\ feed \in SeqsUpTo(FieldItems, MaxItems)
  /\ idx = 1
  /\ tickets = <<>>
  /\ warned = 0
  /\ threw = FALSE
  /\ ppc = "loop"

SpecFields == InitFields /\ [][NextParse]_vars

\* the element is in the markup and has text
Present(el) == el # None /\ el[1] # Empty

\* C16: a ticket takes the text of its type, status, assignee and priority
\* elements where the item has them, and else "Task", "Unknown", the
\* reporter or else "Unassigned", and "Medium"; none of the four is empty.
C16_SentinelDefaults ==
  /\ Len(tickets) = idx - 1
  /\ \A j \in 1..Len(tickets) :
       LET it == feed[j]
           t == tickets[j]
       IN  /\ t.type = (IF Present(it.type) THEN it.type[1] ELSE <<"Task">>)
           /\ t.status = (IF Present(it.status) THEN it.status[1] ELSE <<"Unknown">>)
           /\ t.assignee = (IF Present(it.assignee) THEN it.assignee[1]
                            ELSE IF Present(it.reporter) THEN it.reporter[1]
                            ELSE <<"Unassigned">>)
           /\ t.priority = (IF Present(it.priority) THEN it.priority[1] ELSE <<"Medium">>)
           /\ t.type # Empty /\ t.status # Empty /\ t.assignee # Empty /\ t.priority # Empty

\* C16 witness: a ticket with all four sentinels beside a ticket that took
\* its assignee from the reporter
C16_Witness ==
  /\ ppc = "returned"
  /\ \E j \in 1..Len(tickets) :
       /\ tickets[j].type = <<"Task">> /\ tickets[j].status = <<"Unknown">>
       /\ tickets[j].assignee = <<"Unassigned">> /\ tickets[j].priority = <<"Medium">>
  /\ \E j \in 1..Len(tickets) :
       feed[j].assignee = None /\ tickets[j].assignee = <<"Bob">> /\ tickets[j].status = <<"Done">>

\* ------------------------------------------------------ story or task
\* types spelled with and without "story", in several cases and inside
\* longer words ("History" is the atoms "Hi" and "story")
TypeTexts ==
  {None, Some(<<"Story">>), Some(<<"STORY">>), Some(<<"User", " ", "Story">>),
   Some(<<"Hi", "story">>), Some(<<"Task">>), Some(<<"Bug">>), Some(<<"Sub-", "task">>)}

ClassifyItems ==
  {[BaseItem EXCEPT !.key = Some(k), !.type = ty, !.assignee = Some(<<"Alice">>)] :
     k \in {<<"PROJ-1">>, <<"PROJ-2">>}, ty \in TypeTexts}

InitClassify ==
  /\ variant \in Variants
  /\ ParseIdle
  /\ PageIdle
  /\ SortIdle
  /\ \E f \in SeqsUpTo(ClassifyItems, MaxItems) : rtickets = parseJiraXML(variant, f)
  /\ gidx = 1
  /\ grouped = <<>>
  /\ view = <<>>
  /\ gpc = "group"
  /\ doc = <<>>

SpecClassify == InitClassify /\ [][NextRender]_vars

\* the type holds the letters s-t-o-r-y in some case
SpellsStory(type) == \E k \in 1..Len(type) : type[k] \in {"story", "Story", "STORY"}

\* C17: the grouper files a ticket under userStories exactly when its type
\* holds "story" in some case, and under tasks in every other case; tickets
\* with the same type are filed alike.
C17_StoryIffTypeHasStory ==
  gpc \in {"group", "rendered"} =>
    LET done == SubSeq(rtickets, 1, gidx - 1)
        bs == BucketsOf(variant, grouped)
        inStories(t) == \E b \in 1..Len(bs) : t \in Range(bs[b].bucket.userStories)
        inTasks(t) == \E b \in 1..Len(bs) : t \in Range(bs[b].bucket.tasks)
    IN  /\ \A t \in Range(done) :
             /\ inStories(t) <=> SpellsStory(t.type)
             /\ inTasks(t) <=> ~SpellsStory(t.type)
        /\ \A t, u \in Range(done) : t.type = u.type => (inStories(t) <=> inStories(u))

\* C17 witness: a ticket typed "User Story" or "STORY" was filed beside one
\* typed "Bug"
C17_Witness ==
  /\ gpc = "rendered"
  /\ \E b \in Range(BucketsOf(variant, grouped)) :
       /\ \E t \in Range(b.bucket.userStories) : t.type \in {<<"User", " ", "Story">>, <<"STORY">>}
       /\ \E t \in Range(b.bucket.tasks) : t.type = <<"Bug">>

\* ---------------------------------------------------- key and summary fallback
\* items whose key, title and summary elements are absent, empty or filled;
\* titles with a "key:" prefix, with an empty prefix, with two colons and
\* with no colon
KeyTitles ==
  {None, Some(<<"PROJ-3", ":", " ", "Fix">>), Some(<<":", " ", "Fix">>),
   Some(<<"PROJ-4", ":", "a", ":", "b">>), Some(<<"Fix", " ", "it">>)}

KeyItems ==
  {[BaseItem EXCEPT !.key = k, !.title = t, !.summary = sm] :
     k \in ParseKeys, t \in KeyTitles, sm \in {None, Some(<<"S">>)}}

InitKeys ==
  /\ variant \in Variants
  /\ RenderIdle
  /\ PageIdle
  /\ SortIdle
  /\ feed \in SeqsUpTo(KeyItems, MaxItems)
  /\ idx = 1
  /\ tickets = <<>>
  /\ warned = 0
  /\ threw = FALSE
  /\ ppc = "loop"

SpecKeys == InitKeys /\ [][NextParse]_vars

\* the title after its first ':' and the white space that follows it; the
\* whole title when it has no ':'
TitleRest(it) ==
  LET title == textContent(it.title)
      colons == {i \in 1..Len(title) : title[i] = ":"}
  IN  IF colons = {} THEN title
      ELSE LET c == CHOOSE i \in colons : \A k \in colons : i <= k
               m == CHOOSE n \in c..Len(title) :
                      /\ \A k \in (c + 1)..n : title[k] = " "
                      /\ (n < Len(title) => title[n + 1] # " ")
           IN  SubSeq(title, m + 1, Len(title))

\* the place in the feed of the j-th item that has a key of its own or a
\* title prefix
KeptPlace(j) ==
  CHOOSE i \in 1..Len(feed) :
    /\ ClaimKey(feed[i]) # Empty
    /\ Cardinality({k \in 1..i : ClaimKey(feed[k]) # Empty}) = j

KeptCount == Cardinality({k \in 1..Len(feed) : ClaimKey(feed[k]) # Empty})

\* C18 as stated: an item is dropped exactly when it has neither a key
\* element with text nor a title prefix, and a ticket whose item has no key
\* element with text has the title prefix as key and the title without that
\* prefix as summary.
C18_KeylessTakesTitle ==
  ppc = "returned" =>
    /\ Len(tickets) = KeptCount
    /\ \A j \in 1..Len(tickets) :
         LET it == feed[KeptPlace(j)] IN
           ~Present(it.key) =>
             /\ tickets[j].key = splitFirst(textContent(it.title))
             /\ tickets[j].summary = TitleRest(it)

\* C18, amended: the key is the text of the key element and, without one,
\* the title prefix; the summary is the text of the summary element and,
\* without one, the title without its prefix, whether or not the item has a
\* key element; an item is dropped exactly when it has neither a key element
\* with text nor a title prefix.
C18_KeyAndSummaryFallBack ==
  ppc = "returned" =>
    /\ Len(tickets) = KeptCount
    /\ \A j \in 1..Len(tickets) :
         LET it == feed[KeptPlace(j)] IN
           /\ tickets[j].key = (IF Present(it.key) THEN it.key[1] ELSE ClaimKey(it))
           /\ tickets[j].summary = (IF Present(it.summary) THEN it.summary[1] ELSE TitleRest(it))

\* C18 witness: a ticket that took key and summary from its title, after an
\* item that was dropped for want of both
C18_Witness ==
  /\ ppc = "returned"
  /\ Len(feed) = 2
  /\ Len(tickets) = 1
  /\ ~Present(feed[2].key)
  /\ ~Present(feed[2].summary)
  /\ tickets[1].key = <<"PROJ-3">>
  /\ tickets[1].summary = <<"Fix">>

\* ---------------------------------------------------------- sort direction
\* C19: a closure starts with the sort (updated, desc), and a step that
\* changes the sort of a closure - a call of sortJiraTickets(field) - sets
\* the field to the one asked for and the direction to 'asc' exactly when
\* the sort before had that field with direction 'desc', to 'desc' otherwise.
C19_DirectionAlternates ==
  [][/\ (variant = "legacy" /\ Len(calls') > Len(calls)) =>
          calls'[Len(calls')].currentSort = InitialSort
     /\ \A i \in 1..Len(calls) :
          calls'[i].currentSort # calls[i].currentSort =>
            LET old == calls[i].currentSort[1]
                new == calls'[i].currentSort[1]
            IN  /\ new.field \in {"created", "updated"}
                /\ new.direction = (IF old.field = new.field /\ old.direction = "desc"
                                    THEN "asc" ELSE "desc")
                /\ calls'[i].lastView.sort = calls'[i].currentSort]_vars

\* C19 witness: a closure sorted by created twice (desc, then asc)
C19_Witness ==
  \E i \in 1..Len(calls) :
    /\ calls[i].currentSort = Some([field |-> "created", direction |-> "asc"])
    /\ calls[i].currentData.tickets # <<>>

\* ------------------------------------------------------------- sortTickets
\* the longest tickets array handed to sortTickets
MaxSorted == 3

\* feed items whose dates are d1, d2 or a text new Date cannot read
SortItems ==
  {[BaseItem EXCEPT !.key = Some(<<"PROJ-1">>), !.updated = Some(<<"d1">>),
                    !.created = Some(<<"d2">>)],
   [BaseItem EXCEPT !.key = Some(<<"PROJ-2">>), !.updated = Some(<<"d2">>),
                    !.created = Some(<<"d1">>)],
   [BaseItem EXCEPT !.key = Some(<<"PROJ-3">>), !.updated = Some(<<"d1">>),
                    !.created = Some(<<"d1">>)],
   [BaseItem EXCEPT !.key = Some(<<"PROJ-4">>), !.updated = Some(<<"soon">>),
                    !.created = Some(<<"d3">>)]}

InitSort ==
  /\ variant = "legacy"
  /\ ParseIdle
  /\ RenderIdle
  /\ PageIdle
  /\ sortArgs \in {Some([tickets |-> parseJiraXML("legacy", items), field |-> f,
                         direction |-> d]) :
                     items \in SeqsUpTo(SortItems, MaxSorted),
                     f \in {"created", "updated"}, d \in {"asc", "desc"}}
  /\ sortResult = None

\* one call of sortTickets: the copy is sorted and returned, the argument
\* array is not written
SortTicketsCall ==
  /\ sortArgs # None
  /\ sortResult = None
  /\ \E q \in sortTickets(sortArgs[1].tickets, sortArgs[1].field, sortArgs[1].direction) :
       sortResult' = Some(q)
  /\ UNCHANGED <<variant, parseVars, renderVars, pageVars, sortArgs>>

NextSort == SortTicketsCall

SpecSort == InitSort /\ [][NextSort]_vars

SortValue(t) ==
  DateValue(IF sortArgs[1].field = "created" THEN t.created ELSE t.updated)

IsPermutation(q, ts) ==
  /\ Len(q) = Len(ts)
  /\ \E f \in Permutations1(Len(ts)) : \A k \in 1..Len(ts) : q[k] = ts[f[k]]

\* no two tickets with readable dates stand in the wrong order
OrderedByField(q) ==
  \A a, b \in 1..Len(q) :
    (a < b /\ SortValue(q[a]) # 0 /\ SortValue(q[b]) # 0) =>
      IF sortArgs[1].direction = "asc" THEN SortValue(q[a]) <= SortValue(q[b])
      ELSE SortValue(q[a]) >= SortValue(q[b])

\* C20: the array sortTickets returns is a permutation of its argument and
\* is ordered by the field, ascending for 'asc' and descending for 'desc'
C20_SortedPermutation ==
  sortResult # None =>
    /\ IsPermutation(sortResult[1], sortArgs[1].tickets)
    /\ OrderedByField(sortResult[1])

\* C20, the part the code keeps: the result is a permutation of the
\* argument, and it is ordered when every date of the field can be read
C20_PermutationOrderedIfReadable ==
  sortResult # None =>
    /\ IsPermutation(sortResult[1], sortArgs[1].tickets)
    /\ (\A k \in 1..Len(sortResult[1]) : SortValue(sortResult[1][k]) # 0) =>
         OrderedByField(sortResult[1])

\* ------------------------------------------------------- toggleJiraSection
\* stories with and without comments and description, a story of a second
\* assignee, a task under the first story and a task with no parent
ToggleComment == [BaseComment EXCEPT !.author = <<"ann">>, !.body = <<"x">>]

ToggleItems ==
  {[BaseItem EXCEPT !.key = Some(<<"PROJ-1">>), !.type = Some(<<"Story">>),
                    !.assignee = Some(<<"Alice">>), !.description = d, !.comments = c] :
     d \in {None, Some(<<"x">>)},
     c \in {None, Some(<<ToggleComment>>), Some(<<ToggleComment, ToggleComment>>)}}
  \cup
  {[BaseItem EXCEPT !.key = Some(<<"PROJ-2">>), !.type = Some(<<"Story">>),
                    !.assignee = Some(<<"Bob">>), !.comments = Some(<<ToggleComment>>)],
   [BaseItem EXCEPT !.key = Some(<<"PROJ-3">>), !.assignee = Some(<<"Alice">>),
                    !.parent = Some(<<"PROJ-1">>)],
   [BaseItem EXCEPT !.key = Some(<<"PROJ-4">>), !.assignee = Some(<<"Alice">>)]}

InitToggle ==
  /\ variant \in Variants
  /\ ParseIdle
  /\ PageIdle
  /\ SortIdle
  /\ \E f \in SeqsUpTo(ToggleItems, MaxItems) : rtickets = parseJiraXML(variant, f)
  /\ gidx = 1
  /\ grouped = <<>>
  /\ view = <<>>
  /\ gpc = "group"
  /\ doc = <<>>

\* the identifiers an onclick handler of the overlay passes
ToggleIds(d) == {d[k].toggle[1] : k \in {m \in 1..Len(d) : d[m].toggle # None}}

\* a click on a toggle button or card header of the rendered overlay
ToggleJiraSection(id) ==
  /\ gpc = "rendered"
  /\ doc' = toggleJiraSection(variant, doc, id)
  /\ UNCHANGED <<variant, parseVars, rtickets, gidx, grouped, view, gpc, pageVars, sortVars>>

NextToggle ==
  \/ GroupTicket
  \/ RenderGroups
  \/ \E id \in ToggleIds(doc) : ToggleJiraSection(id)

SpecToggle == InitToggle /\ [][NextToggle]_vars

\* the display of the toggled section and the text of its button
ToggleState(d, id) ==
  [display |-> d[FirstWithId(d, id)].display, text |-> d[FirstWithToggle(d, id)].text]

TwiceToggled(id) == toggleJiraSection(variant, toggleJiraSection(variant, doc, id), id)

\* C21: in every state of a rendered overlay, the freshly rendered one
\* included, two consecutive calls of toggleJiraSection with one section id
\* leave the section's display and its button's text as they were
C21_ToggleTwiceRestores ==
  gpc = "rendered" =>
    \A id \in ToggleIds(doc) :
      FirstWithId(doc, id) # 0 =>
        ToggleState(TwiceToggled(id), id) = ToggleState(doc, id)

\* C21 for the definitions whose buttons carry data-collapsed-text and
\* data-expanded-text (the assignee and the sprint definition)
C21_ToggleTwiceRestoresWithTexts ==
  (gpc = "rendered" /\ variant # "legacy") =>
    \A id \in ToggleIds(doc) :
      FirstWithId(doc, id) # 0 => TwiceToggled(id) = doc

\* ------------------------------------------------------------------ sprint
\* the most customfield elements of an item
MaxFields == 2

\* customfield elements: two sprints, a Sprint field with an empty value and
\* one without a value element, a field with another name, and names that
\* differ from "Sprint" in case or by a space
SprintFields ==
  {[name |-> Some(<<"Sprint">>), value |-> Some(<<"S1">>)],
   [name |-> Some(<<"Sprint">>), value |-> Some(<<"S2">>)],
   [name |-> Some(<<"Sprint">>), value |-> Some(Empty)],
   [name |-> Some(<<"Sprint">>), value |-> None],
   [name |-> Some(<<"sprint">>), value |-> Some(<<"S3">>)],
   [name |-> Some(<<"Sprint", " ">>), value |-> Some(<<"S3">>)],
   [name |-> None, value |-> Some(<<"S3">>)]}

SprintItem(cfs) ==
  [BaseItem EXCEPT !.key = Some(<<"PROJ-1">>), !.type = Some(<<"Story">>),
                   !.assignee = Some(<<"Alice">>), !.customfields = cfs]

\* the items after the first: one in sprint S1, one with no custom field
SprintRestItems ==
  {[BaseItem EXCEPT !.key = Some(<<"PROJ-2">>), !.assignee = Some(<<"Alice">>),
                    !.customfields = <<SprintField>>],
   [BaseItem EXCEPT !.key = Some(<<"PROJ-3">>), !.assignee = Some(<<"Bob">>)]}

\* parseJiraXML has returned the tickets of the feed, renderDashboard starts
InitSprint ==
  /\ variant = "sprint"
  /\ PageIdle
  /\ SortIdle
  /\ feed \in {<<SprintItem(cfs)>> \o rest :
                 cfs \in SeqsUpTo(SprintFields, MaxFields),
                 rest \in SeqsUpTo(SprintRestItems, MaxItems - 1)}
  /\ idx = Len(feed) + 1
  /\ tickets = parseJiraXML(variant, feed)
  /\ warned = 0
  /\ threw = FALSE
  /\ ppc = "returned"
  /\ rtickets = tickets
  /\ gidx = 1
  /\ grouped = <<>>
  /\ view = <<>>
  /\ gpc = "group"
  /\ doc = <<>>

SpecSprint == InitSprint /\ [][NextRender]_vars

\* the sprint the claim gives an item: the value of the last custom field
\* named exactly "Sprint" with a non-empty value
ClaimSprint(item) ==
  LET cfs == item.customfields
      good == {k \in 1..Len(cfs) :
                 /\ cfs[k].name = Some(<<"Sprint">>)
                 /\ cfs[k].value \notin {None, Some(Empty)}}
  IN  IF good = {} THEN <<"No Sprint">>
      ELSE cfs[CHOOSE k \in good : \A m \in good : m <= k].value[1]

\* the sprint groups that hold the ticket in one of their buckets
SprintsHolding(t) ==
  {grouped[g].name : g \in {h \in 1..Len(grouped) :
     \E b \in 1..Len(grouped[h].assignees) : t \in Range(grouped[h].assignees[b].raw)}}

C23_AtMostOneOverlay == Len(dom) <= 1

\* C23 for the definitions whose showLoading removes an existing overlay
C23_AtMostOneOverlayRemoving == variant # "legacy" => Len(dom) <= 1

\* ------------------------------------------------- rendering claims, continued
\* the tickets that the markup shows: the stories of the cards, the tasks of
\* their related-tasks sections and the standalone tasks
ShownTickets(v, vw) ==
  IF v = "sprint"
  THEN {sv.story : sv \in UNION {Range(a.stories) :
                       a \in UNION {Range(vw.cards[i].assignees) : i \in 1..Len(vw.cards)}}}
  ELSE LET svs == UNION {Range(vw.cards[i].stories) : i \in 1..Len(vw.cards)}
       IN  {sv.story : sv \in svs}
           \cup UNION {Range(sec.tasks) : sec \in UNION {Range(sv.related) : sv \in svs}}
           \cup StandaloneShown(v, vw)

\* C24: every ticket passed to renderDashboard is in the rendered markup
C24_EveryTicketShown ==
  gpc = "rendered" => \A t \in Range(rtickets) : t \in ShownTickets(variant, view)

\* C24 for the stories: every user story passed to renderDashboard is in
\* the rendered markup
C24_EveryStoryShown ==
  gpc = "rendered" => \A t \in Stories(rtickets) : t \in ShownTickets(variant, view)

\* C25: when createJiraDashboard was called twice and both fetches have
\* delivered their tickets, the dashboard shown is the one rendered by the
\* second call
C25_SecondCallShown ==
  (/\ Len(calls) = 2
   /\ calls[1].status = "rendered"
   /\ calls[2].status = "rendered"
   /\ TopIsDashboard) => Shown.owner = 2

\* C26: a call of window.sortJiraTickets on a displayed dashboard (the steps
\* that change a closure's current sort) renders the tickets the dashboard
\* showed before the call: the same tickets and the same total
C26_SortKeepsDisplayedTickets ==
  [][(\E c \in 1..Len(calls) : calls'[c].currentSort # calls[c].currentSort) =>
       /\ ShownTickets(variant, Shown'.view) = ShownTickets(variant, Shown.view)
       /\ Shown'.view.stats.totalTickets = Shown.view.stats.totalTickets]_vars

\* C26 within one closure: the call renders the tickets of the closure it
\* is bound to, reordered
C26_SortKeepsClosureTickets ==
  [][\A c \in 1..Len(calls) :
       calls'[c].currentSort # calls[c].currentSort =>
         /\ Shown'.owner = c
         /\ IsPermutation(calls'[c].currentData.tickets, calls[c].currentData.tickets)
         /\ Shown'.view = calls'[c].lastView]_vars

\* the tickets of the markup in document order: card by card, each story
\* followed by the tasks of its related-tasks sections, then the card's
\* standalone tasks
RECURSIVE Flatten(_)
Flatten(qs) == IF qs = <<>> THEN <<>> ELSE Head(qs) \o Flatten(Tail(qs))

DisplayedTickets(vw) ==
  Flatten([i \in 1..Len(vw.cards) |->
     Flatten([j \in 1..Len(vw.cards[i].stories) |->
        <<vw.cards[i].stories[j].story>>
        \o Flatten([k \in 1..Len(vw.cards[i].stories[j].related) |->
                      vw.cards[i].stories[j].related[k].tasks])])
     \o vw.cards[i].standalone])

\* q is ordered by the dates of the field in the direction
OrderedBy(q, field, direction) ==
  LET val(t) == DateValue(IF field = "created" THEN t.created ELSE t.updated)
  IN  \A a, b \in 1..Len(q) :
        a < b => IF direction = "asc" THEN val(q[a]) <= val(q[b])
                 ELSE val(q[a]) >= val(q[b])

\* C27: when the header of the dashboard shown marks field F with direction
\* D, the tickets of the dashboard are, in the order displayed, ordered by F
\* in direction D
C27_HeaderSortMatchesOrder ==
  (TopIsDashboard /\ Shown.view.sort # None) =>
    OrderedBy(DisplayedTickets(Shown.view), Shown.view.sort[1].field,
              Shown.view.sort[1].direction)

\* C27 for the list a sortJiraTickets call lays out: after the call the
\* closure's tickets are ordered by the sort the header marks
C27_SortCallOrdersList ==
  [][\A c \in 1..Len(calls) :
       calls'[c].currentSort # calls[c].currentSort =>
         /\ Shown'.view.sort = calls'[c].currentSort
         /\ OrderedBy(calls'[c].currentData.tickets, calls'[c].currentSort[1].field,
                      calls'[c].currentSort[1].direction)]_vars

\* the number of tickets in the userStories (tasks) lists of all buckets
RECURSIVE BucketTotal(_, _)
BucketTotal(bs, list) ==
  IF bs = <<>> THEN 0
  ELSE Len(IF list = "userStories" THEN Head(bs).bucket.userStories ELSE Head(bs).bucket.tasks)
       + BucketTotal(Tail(bs), list)

\* C28: the statistics of the rendered dashboard agree with the grouping:
\* the user-story count is the number of tickets in the userStories lists,
\* the task count the number in the tasks lists, and the two add up to the
\* total
C28_StatsAgreeWithGrouping ==
  gpc = "rendered" =>
    LET bs == BucketsOf(variant, grouped) IN
    /\ view.stats.userStories = BucketTotal(bs, "userStories")
    /\ view.stats.tasks = BucketTotal(bs, "tasks")
    /\ view.stats.userStories + view.stats.tasks = view.stats.totalTickets

\* C28, the part the code keeps: the user-story count is the number of
\* tickets in the userStories lists, and the two kinds of list together hold
\* as many tickets as the total
C28_StoriesAgreeAndListsAddUp ==
  gpc = "rendered" =>
    LET bs == BucketsOf(variant, grouped) IN
    /\ view.stats.userStories = BucketTotal(bs, "userStories")
    /\ BucketTotal(bs, "userStories") + BucketTotal(bs, "tasks") = view.stats.totalTickets

\* the sections of the overlay that carry the identifier
SectionsWithId(d, id) == {k \in 1..Len(d) : d[k].id = Some(id)}

\* C29: in a rendered overlay every identifier a toggle button names is the
\* identifier of exactly one section
C29_ToggleTargetUnique ==
  gpc = "rendered" =>
    \A id \in ToggleIds(doc) : Cardinality(SectionsWithId(doc, id)) = 1

\* C29 for the definitions that render each related-tasks section once
C29_ToggleTargetUniqueOnce ==
  (gpc = "rendered" /\ variant # "legacy") =>
    \A id \in ToggleIds(doc) : Cardinality(SectionsWithId(doc, id)) = 1

\* C29, what a toggle reaches: after a call with an identifier every
\* section carrying it has the same display
C29_ToggleReachesAllSections ==
  [][\A id \in ToggleIds(doc) :
       doc' = toggleJiraSection(variant, doc, id) =>
         \A a, b \in SectionsWithId(doc', id) : doc'[a].display = doc'[b].display]_vars

\* ---------------------------------------------------- decoding, continued
\* the character an entity stands for
EntityChar(e) ==
  CASE e = EntLt -> "<"
    [] e = EntGt -> ">"
    [] e = EntAmp -> "&"
    [] OTHER -> "\""

\* a decoding in one pass from left to right: each entity of the text is
\* replaced once and the replacement is not read again
RECURSIVE SinglePass(_)
SinglePass(s) ==
  IF s = Empty THEN Empty
  ELSE IF Len(s) >= 2 /\ SubSeq(s, 1, 2) \in Entities
       THEN <<EntityChar(SubSeq(s, 1, 2))>> \o SinglePass(SubSeq(s, 3, Len(s)))
       ELSE <<Head(s)>> \o SinglePass(Tail(s))

\* C30: the parsed text is the feed text with each entity occurrence decoded
\* once, the decoded text not being decoded again (and trimmed)
C30_SinglePassDecoding ==
  \A p \in DecodedPairs : p.out = trim(SinglePass(p.in))

\* C30 apart from the escaped quote: the parsed text is the single-pass
\* decoding of every feed text that does not hold &amp;quot;
C30_SinglePassButAmpQuot ==
  \A p \in DecodedPairs :
    ~Contains(p.in, <<"&", "amp;", "quot;">>) => p.out = trim(SinglePass(p.in))

=============================================================================
